---- MODULE Spec2Model ----
(***************************************************************************)
(* A model of spaic/Network/Assembly.py: the hierarchical container        *)
(* (Assembly) with its member and connection mappings, the mutation API    *)
(* on it, and the build scheduler (build, strategy_build, deep_build).    *)
(*                                                                         *)
(* Objects are numbers.  Assemblies live in Objs, connections in Conns.    *)
(* Every field of the Python objects is one variable, a function from the  *)
(* object to the field's value.  An OrderedDict is a sequence of           *)
(* <<key, value>> pairs in insertion order, a list is a sequence.          *)
(***************************************************************************)
EXTENDS Integers, Sequences, FiniteSets, TLC

\* ------------------------------------------------------------------ bounds
MaxNodes == 3       \* direct members of the scheduled container
MaxEdges == 2       \* connections of the scheduled container
MaxInner == 1       \* members of a composite member
MaxRuns  == 2       \* scheduler runs on one graph
LevelNodes == 4     \* members of the container with pending levels
LevelEdges == 5     \* connections of the container with pending levels

T == 0                                   \* the scheduled (top) container
MaxObj == MaxNodes + MaxNodes * MaxInner
MaxConn == IF LevelEdges > MaxEdges THEN LevelEdges ELSE MaxEdges
Objs == 0..MaxObj
Conns == 1..MaxConn
InnerId(i, j) == MaxNodes + (i - 1) * MaxInner + j

\* ----------------------------------------------------------------- classes
\* _class_label of Assembly (line 61); the other classes live outside
\* Assembly.py and are known here by the tests Assembly.py makes on them.
ClassLabel(c) ==
    CASE c = "Assembly"    -> "<asb>"
      [] c = "Network"     -> "<net>"
      [] c = "NeuronGroup" -> "<neg>"
      [] OTHER             -> "<nod>"

\* __setattr__ (898): NeuronGroup and the subclasses of Node register nothing.
IsLeafClass(c) ==
    c \in {"NeuronGroup", "Node", "Encoder", "Decoder", "Generator"}

\* The classes whose build method is Assembly.build.
InheritsBuild(c) == c \in {"Assembly", "Network"}

VARIABLES
    cls,                  \* [Objs -> class name], "None": not constructed
    names,                \* name ("": None)
    id,                   \* id ("": None)
    groups,               \* _groups: OrderedDict name -> assembly
    connections,          \* _connections: OrderedDict name -> connection
    attrs,                \* the names __setattr__ put into __dict__
    supers,               \* _supers
    input_connections,    \* _input_connections
    output_connections,   \* _output_connections
    num,                  \* num
    has_backend,          \* _backend is not None
    builded,              \* _backend.builded of the one backend
    pre_assembly,         \* Connection.pre_assembly  (0 - 1: not constructed)
    post_assembly,        \* Connection.post_assembly
    con_supers,           \* Connection._supers
    calls,                \* the build calls of the latest scheduler run
    prev_calls,           \* the build calls of the run before it
    warns,                \* the warnings of the latest scheduler run
    phase_ends,           \* the locals at the end of each first loop of the run
    phase_forced,         \* the pending groups the run resolved by force
    status,               \* "idle", "ok" or "RecursionError"
    runs,                 \* scheduler runs so far
    last,                 \* the latest call of the mutation API and its outcome
    nops                  \* calls of the mutation API so far

heapvars == <<cls, names, id, groups, connections, attrs, supers,
              input_connections, output_connections, num, has_backend, builded, pre_assembly,
              post_assembly, con_supers>>
runvars == <<calls, prev_calls, warns, phase_ends, phase_forced, status, runs>>
opvars == <<last, nops>>
vars == <<heapvars, runvars, opvars>>

\* The heap as one record, for the operators that transform it.
Heap ==
    [cls |-> cls, name |-> names, id |-> id,
     groups |-> groups, connections |-> connections,
     attrs |-> attrs, supers |-> supers,
     input_connections |-> input_connections,
     output_connections |-> output_connections, num |-> num,
     has_backend |-> has_backend, builded |-> builded,
     pre_assembly |-> pre_assembly, post_assembly |-> post_assembly,
     con_supers |-> con_supers]

HeapIs(h) ==
    /\ cls = h.cls
    /\ names = h.name
    /\ id = h.id
    /\ groups = h.groups
    /\ connections = h.connections
    /\ attrs = h.attrs
    /\ supers = h.supers
    /\ input_connections = h.input_connections
    /\ output_connections = h.output_connections
    /\ num = h.num
    /\ has_backend = h.has_backend
    /\ builded = h.builded
    /\ pre_assembly = h.pre_assembly
    /\ post_assembly = h.post_assembly
    /\ con_supers = h.con_supers

SetHeap(h) ==
    /\ cls' = h.cls
    /\ names' = h.name
    /\ id' = h.id
    /\ groups' = h.groups
    /\ connections' = h.connections
    /\ attrs' = h.attrs
    /\ supers' = h.supers
    /\ input_connections' = h.input_connections
    /\ output_connections' = h.output_connections
    /\ num' = h.num
    /\ has_backend' = h.has_backend
    /\ builded' = h.builded
    /\ pre_assembly' = h.pre_assembly
    /\ post_assembly' = h.post_assembly
    /\ con_supers' = h.con_supers

\* ------------------------------------------------------- lists and dicts
\* Python's `x in list`.
In(x, s) == \E i \in DOMAIN s : s[i] = x

\* OrderedDict: keys, values, lookup, d[k] = v, del d[k].
OdKeys(d) == [i \in DOMAIN d |-> d[i][1]]
OdValues(d) == [i \in DOMAIN d |-> d[i][2]]
OdHas(d, k) == \E i \in DOMAIN d : d[i][1] = k
OdGet(d, k) == d[CHOOSE i \in DOMAIN d : d[i][1] = k][2]
OdSet(d, k, v) ==
    IF OdHas(d, k)
    THEN [i \in DOMAIN d |-> IF d[i][1] = k THEN <<k, v>> ELSE d[i]]
    ELSE Append(d, <<k, v>>)
OdDel(d, k) == SelectSeq(d, LAMBDA e : e[1] /= k)

\* Assembly.__init__ (84-99): no members, no connections, no relations.  The
\* top container is made with the name "T", every other object without one.
EmptyHeap(classes) ==
    [cls |-> classes,
     name |-> [o \in Objs |-> IF o = T THEN "T" ELSE ""],
     id |-> [o \in Objs |-> ""],
     groups |-> [o \in Objs |-> <<>>],
     connections |-> [o \in Objs |-> <<>>],
     attrs |-> [o \in Objs |-> {}],
     supers |-> [o \in Objs |-> <<>>],
     input_connections |-> [o \in Objs |-> <<>>],
     output_connections |-> [o \in Objs |-> <<>>],
     num |-> [o \in Objs |-> 0],
     has_backend |-> [o \in Objs |-> FALSE],
     builded |-> FALSE,
     pre_assembly |-> [c \in Conns |-> 0 - 1],
     post_assembly |-> [c \in Conns |-> 0 - 1],
     con_supers |-> [c \in Conns |-> <<>>]]

\* `if self._backend: self._backend.builded = False`
mark_stale(h, self) ==
    IF h.has_backend[self] THEN [h EXCEPT !.builded = FALSE] ELSE h

\* value.set_name(name) of the base class: the object takes the name.
set_name(h, value, name) == [h EXCEPT !.name[value] = name]

\* __setattr__ (895-907) with an Assembly as the value.
setattr_assembly(h, self, name, value) ==
    LET h1 == [h EXCEPT !.attrs[self] = @ \cup {name}] IN
    IF IsLeafClass(h.cls[self]) THEN h1
    ELSE LET h2 == set_name(mark_stale(h1, self), value, name) IN
         [h2 EXCEPT !.groups[self] = OdSet(@, name, value),
                    !.num[self] = @ + h.num[value],
                    !.supers[value] = Append(@, self)]

\* __setattr__ (895-900, 908-912) with a Connection as the value.
setattr_connection(h, self, name, value) ==
    LET h1 == [h EXCEPT !.attrs[self] = @ \cup {name}] IN
    IF IsLeafClass(h.cls[self]) THEN h1
    ELSE LET h2 == mark_stale(h1, self) IN
         [h2 EXCEPT !.connections[self] = OdSet(@, name, value),
                    !.con_supers[value] = Append(@, self)]

\* ------------------------------------------------------------ mutation API
\* The record of a call: the method, the container it was called on, its
\* arguments, the exception it raised ("" when it returned) and the object
\* it returned (0 - 1: none).
Call(op, self, a1, a2, exc, ret) ==
    [op |-> op, self |-> self, a1 |-> a1, a2 |-> a2, exc |-> exc, ret |-> ret]
NoCall == Call("", 0 - 1, 0 - 1, 0 - 1, "", 0 - 1)

\* An operation's outcome: the heap it leaves and the exception it raised
\* ("" when it returned).
Ok(h) == [h |-> h, exc |-> ""]
Raise(h, e) == [h |-> h, exc |-> e]

\* add_assembly without the assertion of line 143 on the name.
add_assembly_object_only(h, self, name, assembly) ==
    LET h1 == [h EXCEPT !.builded = @ /\ ~h.has_backend[self]] IN
    IF \E i \in DOMAIN h1.groups[self] : h1.groups[self][i][2] = assembly
    THEN [h |-> h1, exc |-> "AssertionError"]
    ELSE [h |-> setattr_assembly(h1, self, name, assembly), exc |-> ""]

\* add_assembly (140-144).
add_assembly(h, self, name, assembly) ==
    LET h1 == mark_stale(h, self) IN
    IF In(assembly, OdValues(h1.groups[self])) THEN Raise(h1, "AssertionError")
    ELSE IF OdHas(h1.groups[self], name) THEN Raise(h1, "AssertionError")
    ELSE Ok(setattr_assembly(h1, self, name, assembly))

\* One list of register_connection: append unless present.
register_once(s, connection_obj) ==
    IF In(connection_obj, s) THEN s ELSE Append(s, connection_obj)

\* register_connection (795-807): the members first, then the assembly.
register_connection(h, self, connection_obj, presynaptic) ==
    LET targets == {self} \cup {OdValues(h.groups[self])[i] :
                                    i \in DOMAIN h.groups[self]} IN
    IF presynaptic
    THEN [h EXCEPT !.output_connections =
             [o \in Objs |-> IF o \in targets
                             THEN register_once(@[o], connection_obj)
                             ELSE @[o]]]
    ELSE [h EXCEPT !.input_connections =
             [o \in Objs |-> IF o \in targets
                             THEN register_once(@[o], connection_obj)
                             ELSE @[o]]]

\* Connection(pre, post): the constructor keeps both ends and registers
\* itself with each of them.
new_connection(h, c, pre, post) ==
    LET h1 == [h EXCEPT !.pre_assembly[c] = pre, !.post_assembly[c] = post]
        h2 == register_connection(h1, pre, c, TRUE)
    IN  register_connection(h2, post, c, FALSE)

\* Connection.assembly_linked.
assembly_linked(h, c, assembly) ==
    h.pre_assembly[c] = assembly \/ h.post_assembly[c] = assembly

\* add_connection without the assertion of line 212 on the post-assembly.
add_connection_pre_only(h, self, name, connection) ==
    LET h1 == [h EXCEPT !.builded = @ /\ ~h.has_backend[self]] IN
    IF ~(\E i \in DOMAIN h1.groups[self] :
            h1.groups[self][i][2] = h1.pre_assembly[connection])
    THEN [h |-> h1, exc |-> "AssertionError"]
    ELSE IF \E i \in DOMAIN h1.connections[self] :
                h1.connections[self][i][1] = name
    THEN [h |-> h1, exc |-> "ValueError"]
    ELSE [h |-> setattr_connection(h1, self, name, connection), exc |-> ""]

\* add_connection (211-221).
add_connection(h, self, name, connection) ==
    LET h1 == mark_stale(h, self) IN
    IF ~In(h1.pre_assembly[connection], OdValues(h1.groups[self]))
    THEN Raise(h1, "AssertionError")
    ELSE IF ~In(h1.post_assembly[connection], OdValues(h1.groups[self]))
    THEN Raise(h1, "AssertionError")
    ELSE IF OdHas(h1.connections[self], name) THEN Raise(h1, "ValueError")
    ELSE Ok(setattr_connection(h1, self, name, connection))

\* The loop `for ckey in self._connections.keys(): if linked: del ...` of
\* del_assembly (180-182, 189-191).  Deleting from an OrderedDict while
\* iterating over it raises RuntimeError at the next step of the iterator,
\* unless the deleted key was the last one.
del_linked_connections(h, self, assembly) ==
    LET d == h.connections[self]
        hits == {i \in DOMAIN d : assembly_linked(h, d[i][2], assembly)}
    IN  IF hits = {} THEN Ok(h)
        ELSE LET i == CHOOSE x \in hits : \A y \in hits : x <= y
                 h1 == [h EXCEPT !.connections[self] = OdDel(@, d[i][1])]
             IN  IF i = Len(d) THEN Ok(h1) ELSE Raise(h1, "RuntimeError")

\* del_assembly (169-191); assembly = None is 0 - 1, name = None is "".
del_assembly(h, self, assembly, name) ==
    LET h1 == mark_stale(h, self)
        d == h1.groups[self]
    IN
    IF assembly /= 0 - 1
    THEN LET hits == {i \in DOMAIN d : d[i][2] = assembly} IN
         IF hits = {} THEN Raise(h1, "AssertionError")
         ELSE LET i == CHOOSE x \in hits : \A y \in hits : x <= y
                  gkey == d[i][1]
                  h2 == [h1 EXCEPT !.groups[self] = OdDel(@, gkey)]
                  h3 == [h2 EXCEPT !.attrs[self] = @ \ {gkey}]
              IN  IF gkey \notin h1.attrs[self] THEN Raise(h2, "KeyError")
                  ELSE IF i /= Len(d) THEN Raise(h3, "RuntimeError")
                  ELSE del_linked_connections(h3, self, assembly)
    ELSE IF name /= ""
    THEN IF ~OdHas(d, name) THEN Raise(h1, "AssertionError")
         ELSE LET asb == OdGet(d, name)
                  h2 == [h1 EXCEPT !.groups[self] = OdDel(@, name)]
                  h3 == [h2 EXCEPT !.attrs[self] = @ \ {name}]
              IN  IF name \notin h1.attrs[self] THEN Raise(h2, "KeyError")
                  ELSE del_linked_connections(h3, self, asb)
    ELSE Ok(h1)

\* del_connection (247-260); connection = None is 0 - 1, name = None is "".
del_connection(h, self, connection, name) ==
    LET h1 == mark_stale(h, self)
        d == h1.connections[self]
    IN
    IF connection /= 0 - 1
    THEN IF In(connection, OdValues(d)) THEN Raise(h1, "TypeError")
         ELSE Raise(h1, "AssertionError")
    ELSE IF name /= ""
    THEN IF ~OdHas(d, name) THEN Raise(h1, "AssertionError")
         ELSE LET h2 == [h1 EXCEPT !.connections[self] = OdDel(@, name)] IN
              IF name \notin h1.attrs[self] THEN Raise(h2, "KeyError")
              ELSE Ok([h2 EXCEPT !.attrs[self] = @ \ {name}])
    ELSE Ok(h1)

\* Connection.replace_assembly: the end that is old_assembly becomes
\* new_assembly.
connection_replace_assembly(h, c, old_assembly, new_assembly) ==
    [h EXCEPT !.pre_assembly[c] =
                  IF @ = old_assembly THEN new_assembly ELSE @,
              !.post_assembly[c] =
                  IF @ = old_assembly THEN new_assembly ELSE @]

\* The loop of replace_assembly over self._connections.values() (317-319).
RECURSIVE replace_in_connections(_, _, _, _, _)
replace_in_connections(h, cons, k, old_assembly, new_assembly) ==
    IF k > Len(cons) THEN h
    ELSE replace_in_connections(
             IF assembly_linked(h, cons[k], old_assembly)
             THEN connection_replace_assembly(h, cons[k], old_assembly,
                                              new_assembly)
             ELSE h,
             cons, k + 1, old_assembly, new_assembly)

\* replace_assembly without the loop over the connections (317-319).
replace_assembly_members_only(h, self, old_assembly, new_assembly) ==
    LET h1 == [h EXCEPT !.builded = @ /\ ~h.has_backend[self]]
        d == h1.groups[self]
        hits == {i \in DOMAIN d : d[i][2] = old_assembly}
    IN  IF hits = {} THEN [h |-> h1, exc |-> "AssertionError"]
        ELSE [h |-> [h1 EXCEPT
                       !.groups[self] =
                           [i \in DOMAIN d |->
                              IF i \in hits THEN <<d[i][1], new_assembly>>
                              ELSE d[i]],
                       !.attrs[self] = @ \cup {d[i][1] : i \in hits}],
              exc |-> ""]

\* replace_assembly (308-319).
replace_assembly(h, self, old_assembly, new_assembly) ==
    LET h1 == mark_stale(h, self)
        d == h1.groups[self]
        hits == {i \in DOMAIN d : d[i][2] = old_assembly}
        h2 == [h1 EXCEPT
                 !.groups[self] =
                     [i \in DOMAIN d |->
                        IF i \in hits THEN <<d[i][1], new_assembly>> ELSE d[i]],
                 !.attrs[self] = @ \cup {d[i][1] : i \in hits}]
    IN  IF hits = {} THEN Raise(h1, "AssertionError")
        ELSE Ok(replace_in_connections(h2, OdValues(h2.connections[self]), 1,
                                       old_assembly, new_assembly))

\* merge_assembly (340-366): OrderedDict has no method `item`, so the first
\* loop header raises.
merge_assembly(h, self, assembly) ==
    Raise(mark_stale(h, self), "AttributeError")

\* The length of a name: select_assembly unpacks a key into two variables.
NameLen(name) == Len(name)

\* The loop of select_assembly over self._connections.items() (396-398,
\* 407-409); add_connection may raise.
RECURSIVE select_connections(_, _, _, _, _)
select_connections(h, self, new_asb, asb, k) ==
    LET d == h.connections[self] IN
    IF k > Len(d) THEN Ok(h)
    ELSE IF assembly_linked(h, d[k][2], asb)
    THEN LET r == add_connection(h, new_asb, d[k][1], d[k][2]) IN
         IF r.exc /= "" THEN r
         ELSE select_connections(r.h, self, new_asb, asb, k + 1)
    ELSE select_connections(h, self, new_asb, asb, k + 1)

\* The loop of select_assembly over assemblies (389-411).  An item is
\* <<"name", key>> or <<"obj", assembly>>.  A name that is no key is skipped
\* (the ValueError of line 400 is built and never raised).  For an object,
\* `for gkey, value in self._groups` unpacks each key, a string, into two
\* variables: a key that is not two characters long raises ValueError, a key
\* that is yields two characters, neither of them the object.
RECURSIVE select_items(_, _, _, _, _, _)
select_items(h, self, assemblies, k, new_asb, with_connection) ==
    IF k > Len(assemblies) THEN Ok(h)
    ELSE LET asb == assemblies[k] IN
         IF asb[1] = "name"
         THEN IF OdHas(h.groups[self], asb[2])
              THEN LET member == OdGet(h.groups[self], asb[2])
                       r1 == add_assembly(h, new_asb, asb[2], member)
                       r2 == IF with_connection
                             THEN select_connections(r1.h, self, new_asb,
                                                     member, 1)
                             ELSE Ok(r1.h)
                   IN  IF r1.exc /= "" THEN r1
                       ELSE IF r2.exc /= "" THEN r2
                       ELSE select_items(r2.h, self, assemblies, k + 1,
                                         new_asb, with_connection)
              ELSE select_items(h, self, assemblies, k + 1, new_asb,
                                with_connection)
         ELSE IF \E i \in DOMAIN h.groups[self] :
                     NameLen(h.groups[self][i][1]) /= 2
              THEN Raise(h, "ValueError")
              ELSE select_items(h, self, assemblies, k + 1, new_asb,
                                with_connection)

\* select_assembly (387-413); new_asb is the object Assembly(name) makes.
select_assembly(h, self, assemblies, new_asb, with_connection) ==
    LET h1 == mark_stale(h, self)
        h2 == [h1 EXCEPT !.cls[new_asb] = "Assembly"]
    IN  select_items(h2, self, assemblies, 1, new_asb, with_connection)

\* structure_copy without the `del tmp_dict['_supers']` of line 826.
structure_copy_supers_kept(h, self, name, rv) ==
    [h EXCEPT !.cls[rv] = h.cls[self],
              !.name[rv] = name,
              !.id[rv] = h.id[self],
              !.num[rv] = h.num[self],
              !.attrs[rv] = h.attrs[self],
              !.supers[rv] = h.supers[self],
              !.input_connections[rv] = <<>>,
              !.output_connections[rv] = <<>>]

\* structure_copy (821-830) of an assembly that has no members, no
\* connections and no backend: rv is an object of the same class, made by
\* __init__(name) with empty _supers, _input_connections and
\* _output_connections; every other entry of __dict__ (id, num, the names
\* __setattr__ put there) is a copy of the source's.
structure_copy(h, self, name, rv) ==
    [h EXCEPT !.cls[rv] = h.cls[self],
              !.name[rv] = name,
              !.id[rv] = h.id[self],
              !.num[rv] = h.num[self],
              !.attrs[rv] = h.attrs[self],
              !.supers[rv] = <<>>,
              !.input_connections[rv] = <<>>,
              !.output_connections[rv] = <<>>]

\* copy_assembly (283-285): structure_copy, then self.__setattr__(name, rv),
\* with no test on the name.
copy_assembly(h, self, name, assembly, rv) ==
    LET h1 == mark_stale(h, self)
        h2 == structure_copy(h1, assembly, name, rv)
    IN  Ok(setattr_assembly(h2, self, name, rv))

\* get_super_assemblies (550-561).  The result is [err, list]: err when the
\* search comes back to an assembly it is already searching (a membership
\* cycle), which in Python recurses until RecursionError.
RECURSIVE get_super_assemblies(_, _, _, _)
RECURSIVE get_super_members(_, _, _, _, _)
get_super_assemblies(h, self, assembly, active) ==
    IF self \in active THEN [err |-> TRUE, list |-> <<>>]
    ELSE IF Len(h.groups[self]) = 0 THEN [err |-> FALSE, list |-> <<>>]
    ELSE IF In(assembly, OdValues(h.groups[self]))
    THEN [err |-> FALSE, list |-> <<self>>]
    ELSE get_super_members(h, self, assembly, active \cup {self}, 1)

\* The loop `for g in self._groups.values()` of get_super_assemblies
\* (555-561): the first member with a non-empty answer decides.
get_super_members(h, self, assembly, active, k) ==
    IF k > Len(h.groups[self]) THEN [err |-> FALSE, list |-> <<>>]
    ELSE LET sup_list == get_super_assemblies(h, h.groups[self][k][2],
                                              assembly, active)
         IN  IF sup_list.err THEN sup_list
             ELSE IF sup_list.list /= <<>>
             THEN [err |-> FALSE, list |-> <<self>> \o sup_list.list]
             ELSE get_super_members(h, self, assembly, active, k + 1)

\* set_id (749-771).  The result is [h, exc, ret].  A call that comes back to
\* an assembly whose id it is computing (a cycle of parents without id)
\* recurses in Python until RecursionError; a name that is None makes
\* `self.name + label` a TypeError.
RECURSIVE set_id(_, _, _)
RECURSIVE set_id_supers(_, _, _, _, _)
RECURSIVE set_id_uncached(_, _, _)
RECURSIVE JoinIds(_, _)
JoinIds(super_ids, k) ==
    IF k > Len(super_ids) THEN ""
    ELSE super_ids[k] \o "," \o JoinIds(super_ids, k + 1)

\* The id set_id composes (753, 762-770) from the ids of the parents.
ComposeId(h, self, super_ids) ==
    LET short == h.name[self] \o ClassLabel(h.cls[self]) IN
    IF Len(super_ids) = 0 THEN short
    ELSE IF Len(super_ids) = 1 THEN super_ids[1] \o "_" \o short
    ELSE "/" \o JoinIds(super_ids, 1) \o "/" \o "_" \o short

\* set_id without the test `if self.id is not None` of line 749.
set_id_uncached(h, self, active) ==
    IF self \in active THEN [h |-> h, exc |-> "RecursionError", ret |-> ""]
    ELSE LET r == set_id_supers(h, self, 1, active \cup {self}, <<>>)
             new_id == ComposeId(h, self, r.ids)
         IN  IF r.exc /= "" THEN [h |-> r.h, exc |-> r.exc, ret |-> ""]
             ELSE IF h.name[self] = ""
             THEN [h |-> r.h, exc |-> "TypeError", ret |-> ""]
             ELSE [h |-> [r.h EXCEPT !.id[self] = new_id], exc |-> "",
                   ret |-> new_id]

set_id(h, self, active) ==
    IF self \in active THEN [h |-> h, exc |-> "RecursionError", ret |-> ""]
    ELSE IF h.id[self] /= "" THEN [h |-> h, exc |-> "", ret |-> h.id[self]]
    ELSE LET r == set_id_supers(h, self, 1, active \cup {self}, <<>>)
             new_id == ComposeId(h, self, r.ids)
         IN  IF r.exc /= "" THEN [h |-> r.h, exc |-> r.exc, ret |-> ""]
             ELSE IF h.name[self] = ""
             THEN [h |-> r.h, exc |-> "TypeError", ret |-> ""]
             ELSE [h |-> [r.h EXCEPT !.id[self] = new_id], exc |-> "",
                   ret |-> new_id]

\* The loop `for super in self._supers` of set_id (756-760).
set_id_supers(h, self, k, active, super_ids) ==
    IF k > Len(h.supers[self]) THEN [h |-> h, exc |-> "", ids |-> super_ids]
    ELSE LET super == h.supers[self][k] IN
         IF h.id[super] /= ""
         THEN set_id_supers(h, self, k + 1, active,
                            Append(super_ids, h.id[super]))
         ELSE LET r == set_id(h, super, active) IN
              IF r.exc /= "" THEN [h |-> r.h, exc |-> r.exc, ids |-> super_ids]
              ELSE set_id_supers(r.h, self, k + 1, active,
                                 Append(super_ids, r.ret))

\* ---------------------------------------------------------------- scheduler
\* The members of builded_groups and of the call log: a group or a connection.
G(o) == <<"g", o>>
C(c) == <<"c", c>>

\* get_groups(False) (470-478): the members, or [self] when there are none.
get_groups(self) ==
    IF groups[self] /= <<>> THEN OdValues(groups[self]) ELSE <<self>>

\* The scheduler's state: the locals of the running strategy_build
\* (builded, unbuild, output), the build calls and warnings so far, the
\* assemblies whose build is on the call stack, those whose _backend the run
\* has set, and whether the recursion has overflowed.  Two logs observe the
\* run: ends holds, for each strategy_build, its container and its locals
\* when the first loop has ended (678); forced holds, for each pending group
\* the second loop resolves (687), the container, the group's place in the
\* pending list and builded_groups at that moment.
NewRun ==
    [builded |-> <<>>, unbuild |-> <<>>, output |-> <<>>,
     calls |-> <<>>, warns |-> <<>>, active |-> {}, backend |-> {},
     err |-> FALSE, ends |-> <<>>, forced |-> <<>>]

\* unbuild_groups[str(level)].append(neuron), or a new key (697-700).
record_unbuild(unbuild, level, neuron) ==
    IF OdHas(unbuild, level)
    THEN OdSet(unbuild, level, Append(OdGet(unbuild, level), neuron))
    ELSE Append(unbuild, <<level, <<neuron>>>>)

\* builded_groups.append(x), when the call before it returned.
builded_append(st, x) ==
    IF st.err THEN st ELSE [st EXCEPT !.builded = Append(@, x)]

\* conn.build(self._backend): an opaque call of the backend's collaborator.
conn_build(conn, st) ==
    IF st.err THEN st ELSE [st EXCEPT !.calls = Append(@, C(conn))]

\* A variant of strategy_build_locals: builded_groups outlives the run (it
\* starts from what the run before built).
strategy_build_locals_kept(st) ==
    [st EXCEPT !.builded = calls, !.unbuild = <<>>, !.output = <<>>]

\* The locals of strategy_build (653-655): builded_groups = [],
\* unbuild_groups = {}, output_groups = [].
strategy_build_locals(st) ==
    [st EXCEPT !.builded = <<>>, !.unbuild = <<>>, !.output = <<>>]

RECURSIVE build(_, _)
RECURSIVE strategy_build(_, _, _)
RECURSIVE strategy_build_loop(_, _, _, _)
RECURSIVE strategy_build_outputs(_, _, _)
RECURSIVE strategy_build_unbuild(_, _, _, _)
RECURSIVE strategy_build_output_groups(_, _)
RECURSIVE deep_build_neurongroup(_, _, _)
RECURSIVE deep_build_neurongroup_outputs(_, _, _, _)
RECURSIVE deep_build_conn(_, _, _)
RECURSIVE deep_build_conn_with_delay(_, _)
RECURSIVE deep_build_neurongroup_with_delay(_, _)
RECURSIVE delay_inputs(_, _, _)
RECURSIVE delay_outputs(_, _, _)

\* group.build(self._backend): one build call on the group; a group whose
\* class inherits Assembly.build runs the scheduler on its own members.
group_build(group, st) ==
    IF st.err THEN st
    ELSE LET st1 == [st EXCEPT !.calls = Append(@, G(group))] IN
         IF InheritsBuild(cls[group]) THEN build(group, st1) ELSE st1

\* build (636-645), strategy 2.  The scheduler reads the graph and never
\* changes it, so a build of an assembly inside a build of the same assembly
\* repeats itself without end: Python stops it with a RecursionError.
\* The caller's locals come back when the call returns.
build(self, st) ==
    IF self \in st.active THEN [st EXCEPT !.err = TRUE]
    ELSE LET r == strategy_build(self, get_groups(self),
                      [st EXCEPT !.active = @ \cup {self},
                                 !.backend = @ \cup {self}])
         IN  [r EXCEPT !.active = st.active, !.builded = st.builded,
                       !.unbuild = st.unbuild, !.output = st.output]

\* deep_build_conn (715-720).
deep_build_conn(conn, st, level) ==
    IF st.err THEN st
    ELSE deep_build_neurongroup(post_assembly[conn],
                                builded_append(conn_build(conn, st), C(conn)),
                                level + 1)

\* deep_build_neurongroup (693-713).
deep_build_neurongroup(neuron, st, level) ==
    IF st.err THEN st
    ELSE LET conns == SelectSeq(input_connections[neuron],
                                LAMBDA i : ~In(C(i), st.builded)) IN
         IF conns /= <<>>
         THEN [st EXCEPT !.unbuild = record_unbuild(@, level, neuron)]
         ELSE IF ~In(G(neuron), st.builded)
         THEN deep_build_neurongroup_outputs(
                  output_connections[neuron], 1,
                  builded_append(group_build(neuron, st), G(neuron)), level)
         ELSE st

\* The loop of deep_build_neurongroup over neuron._output_connections (710-712).
deep_build_neurongroup_outputs(conns, k, st, level) ==
    IF st.err \/ k > Len(conns) THEN st
    ELSE deep_build_neurongroup_outputs(
             conns, k + 1, deep_build_conn(conns[k], st, level), level)

\* deep_build_conn_with_delay (722-727).
deep_build_conn_with_delay(conn, st) ==
    IF st.err THEN st
    ELSE LET st1 == builded_append(conn_build(conn, st), C(conn)) IN
         IF ~In(G(post_assembly[conn]), st1.builded)
         THEN deep_build_neurongroup_with_delay(post_assembly[conn], st1)
         ELSE st1

\* The loop of deep_build_neurongroup_with_delay over conns (732-734).
delay_inputs(conns, k, st) ==
    IF st.err \/ k > Len(conns) THEN st
    ELSE delay_inputs(conns, k + 1,
                      builded_append(conn_build(conns[k], st), C(conns[k])))

\* The loop of deep_build_neurongroup_with_delay over
\* neuron._output_connections (739-741).
delay_outputs(conns, k, st) ==
    IF st.err \/ k > Len(conns) THEN st
    ELSE delay_outputs(conns, k + 1,
                       IF ~In(C(conns[k]), st.builded)
                       THEN deep_build_conn_with_delay(conns[k], st)
                       ELSE st)

\* deep_build_neurongroup_with_delay (729-742).
deep_build_neurongroup_with_delay(neuron, st) ==
    IF st.err THEN st
    ELSE LET conns == SelectSeq(input_connections[neuron],
                                LAMBDA i : ~In(C(i), st.builded))
             st1 == delay_inputs(conns, 1, st)
             st2 == builded_append(group_build(neuron, st1), G(neuron))
         IN  delay_outputs(output_connections[neuron], 1, st2)

\* The loop of strategy_build over group._output_connections (665-667).
strategy_build_outputs(conns, k, st) ==
    IF st.err \/ k > Len(conns) THEN st
    ELSE strategy_build_outputs(conns, k + 1, deep_build_conn(conns[k], st, 0))

\* The first loop of strategy_build, over all_groups (659-676).
strategy_build_loop(self, all_groups, k, st) ==
    IF st.err \/ k > Len(all_groups) THEN st
    ELSE LET group == all_groups[k]
             st1 ==
               IF \/ cls[group] = "Encoder"
                  \/ cls[group] = "Generator"
                  \/ ClassLabel(cls[self]) = "<asb>"
               THEN strategy_build_outputs(
                        output_connections[group], 1,
                        builded_append(group_build(group, st), G(group)))
               ELSE IF cls[group] = "Decoder"
               THEN [st EXCEPT !.output = Append(@, group)]
               ELSE IF /\ input_connections[group] = <<>>
                       /\ output_connections[group] = <<>>
               THEN group_build(group,
                        [st EXCEPT !.warns = Append(@, "Isolated")])
               ELSE st
         IN  strategy_build_loop(self, all_groups, k + 1, st1)

\* The loop of strategy_build over the pending groups, key by key in the
\* order the keys were inserted (682-687); pending is the flattened list.
strategy_build_unbuild(self, pending, k, st) ==
    IF st.err \/ k > Len(pending) THEN st
    ELSE strategy_build_unbuild(self, pending, k + 1,
             IF In(G(pending[k]), st.builded) THEN st
             ELSE deep_build_neurongroup_with_delay(pending[k],
                      [st EXCEPT !.forced =
                           Append(@, [self |-> self, entry |-> k,
                                      builded |-> st.builded])]))

\* The last loop of strategy_build, over output_groups (690-691).
strategy_build_output_groups(k, st) ==
    IF st.err \/ k > Len(st.output) THEN st
    ELSE strategy_build_output_groups(k + 1, group_build(st.output[k], st))

\* unbuild_groups flattened: the values of the keys in insertion order.
RECURSIVE Flatten(_)
Flatten(d) == IF d = <<>> THEN <<>> ELSE d[1][2] \o Flatten(Tail(d))

\* strategy_build (652-691).
strategy_build(self, all_groups, st) ==
    LET a == strategy_build_loop(self, all_groups, 1, strategy_build_locals(st))
        e == IF a.err THEN a
             ELSE [a EXCEPT !.ends =
                       Append(@, [self |-> self, unbuild |-> a.unbuild,
                                  builded |-> a.builded])]
        b == IF ~e.err /\ e.unbuild /= <<>>
             THEN [e EXCEPT !.warns = Append(@, "Loop")] ELSE e
        c == strategy_build_unbuild(self, Flatten(b.unbuild), 1, b)
    IN  strategy_build_output_groups(1, c)

\* ------------------------------------------------- the scheduled graphs
\* The classes a direct member of the scheduled container is drawn from, and
\* the classes of the scheduled container itself.
MemberClasses == {"Encoder", "Generator", "Decoder", "NeuronGroup", "Assembly"}
ContainerClasses == {"Assembly", "Network"}

GroupName(i) == "n" \o ToString(i)
ConnName(k) == "c" \o ToString(k)

\* The members of member i: composite.add_assembly(name, NeuronGroup()).
RECURSIVE add_inner(_, _, _, _)
add_inner(h, i, j, count) ==
    IF j > count THEN h
    ELSE add_inner(add_assembly(h, i, GroupName(InnerId(i, j)),
                                InnerId(i, j)).h, i, j + 1, count)

\* top.add_assembly(name, member) for the members 1..n, in this order, each
\* composite member filled before it is added.
RECURSIVE add_members(_, _, _, _)
add_members(h, i, n, inner) ==
    IF i > n THEN h
    ELSE add_members(
             add_assembly(add_inner(h, i, 1, inner[i]), T, GroupName(i), i).h,
             i + 1, n, inner)

\* top.add_connection(name, Connection(pre, post)) for the edges, in order.
RECURSIVE add_edges(_, _, _)
add_edges(h, k, es) ==
    IF k > Len(es) THEN h
    ELSE add_edges(
             add_connection(new_connection(h, k, es[k][1], es[k][2]),
                            T, ConnName(k), k).h,
             k + 1, es)

\* The graph a program builds from a container class, its members' classes,
\* the member count of each composite member, and the edges.
Construct(top, n, kinds, inner, es) ==
    LET classes == [o \in Objs |->
                      IF o = T THEN top
                      ELSE IF o \in 1..n THEN kinds[o]
                      ELSE IF \E i \in 1..n, j \in 1..MaxInner :
                                  j <= inner[i] /\ o = InnerId(i, j)
                      THEN "NeuronGroup"
                      ELSE "None"]
        h0 == EmptyHeap(classes)
        h1 == [h0 EXCEPT !.num = [o \in Objs |->
                                    IF IsLeafClass(classes[o]) THEN 1 ELSE 0]]
    IN  add_edges(add_members(h1, 1, n, inner), 1, es)

EdgeSeqs(n) ==
    UNION {[1..k -> (1..n) \X (1..n)] : k \in 0..MaxEdges}

InitBuild ==
    /\ \E top \in ContainerClasses, n \in 0..MaxNodes :
         \E kinds \in [1..n -> MemberClasses], inner \in [1..n -> 0..MaxInner],
            es \in EdgeSeqs(n) :
              /\ \A i \in 1..n : kinds[i] /= "Assembly" => inner[i] = 0
              /\ \E h \in {Construct(top, n, kinds, inner, es)} : HeapIs(h)
    /\ calls = <<>>
    /\ prev_calls = <<>>
    /\ warns = <<>>
    /\ phase_ends = <<>>
    /\ phase_forced = <<>>
    /\ status = "idle"
    /\ runs = 0
    /\ last = NoCall
    /\ nops = 0

\* top.build(backend): one run of the scheduler on the top container.
Build ==
    /\ runs < MaxRuns
    /\ \E r \in {build(T, NewRun)} :
         /\ calls' = r.calls
         /\ warns' = r.warns
         /\ phase_ends' = r.ends
         /\ phase_forced' = r.forced
         /\ status' = IF r.err THEN "RecursionError" ELSE "ok"
         /\ has_backend' = [o \in Objs |-> has_backend[o] \/ o \in r.backend]
    /\ prev_calls' = calls
    /\ runs' = runs + 1
    /\ UNCHANGED <<cls, names, id, groups, connections, attrs, supers,
                   input_connections, output_connections, num, builded,
                   pre_assembly,
                   post_assembly, con_supers, last, nops>>

NextBuild == Build

SpecBuild == InitBuild /\ [][NextBuild]_vars

\* ------------------------------------------- the mutation API, call by call
MutNodes == 2       \* assemblies besides the container T
MutEdges == 1       \* connections
MaxOps   == 2       \* calls of the mutation API

MutObjs == 0..MutNodes
MutConns == 1..MutEdges
NewObj == MutNodes + 1                   \* the object select_assembly makes

\* Object 1 is an Assembly like T, the others are NeuronGroups.
MutClass(o) ==
    IF o \in {T, 1} THEN "Assembly"
    ELSE IF o \in MutObjs THEN "NeuronGroup"
    ELSE "None"

\* The names the calls use: one a member holds already, one they do not.
GroupNames == {GroupName(1), "a"}
ConnNames == {ConnName(1), "a"}

\* top.add_assembly(name, member) for the members, in this order.
RECURSIVE add_listed(_, _, _)
add_listed(h, ms, k) ==
    IF k > Len(ms) THEN h
    ELSE add_listed(add_assembly(h, T, GroupName(ms[k]), ms[k]).h, ms, k + 1)

\* Sequences of distinct members.
MemberSeqs ==
    {ms \in UNION {[1..k -> 1..MutNodes] : k \in 0..MutNodes} :
        \A i, j \in DOMAIN ms : ms[i] = ms[j] => i = j}

InitMut ==
    /\ \E ms \in MemberSeqs, nested \in BOOLEAN :
         \E es \in UNION {[1..k -> {ms[i] : i \in DOMAIN ms}
                                   \X {ms[i] : i \in DOMAIN ms}] :
                             k \in 0..MutEdges} :
           LET h0 == EmptyHeap([o \in Objs |-> MutClass(o)])
               h1 == [h0 EXCEPT !.num = [o \in Objs |->
                                   IF IsLeafClass(MutClass(o)) THEN 1 ELSE 0]]
               h2 == IF nested /\ MutNodes >= 2
                     THEN add_assembly(h1, 1, GroupName(2), 2).h ELSE h1
           IN  \E h \in {add_edges(add_listed(h2, ms, 1), 1, es)} : HeapIs(h)
    /\ calls = <<>>
    /\ prev_calls = <<>>
    /\ warns = <<>>
    /\ phase_ends = <<>>
    /\ phase_forced = <<>>
    /\ status = "idle"
    /\ runs = 0
    /\ last = NoCall
    /\ nops = 0

\* A call: the heap and the record of the call change, the rest stays.
Called(r, op, self, a1, a2, ret) ==
    /\ SetHeap(r.h)
    /\ last' = Call(op, self, a1, a2, r.exc, IF r.exc = "" THEN ret ELSE 0 - 1)
    /\ nops' = nops + 1
    /\ UNCHANGED runvars

AddAssembly ==
    /\ nops < MaxOps
    /\ \E self \in MutObjs, name \in GroupNames, assembly \in MutObjs :
         \E r \in {add_assembly(Heap, self, name, assembly)} :
            Called(r, "add_assembly", self, name, assembly, 0 - 1)

DelAssembly ==
    /\ nops < MaxOps
    /\ \E self \in MutObjs :
         \/ \E assembly \in MutObjs :
              \E r \in {del_assembly(Heap, self, assembly, "")} :
                 Called(r, "del_assembly", self, assembly, "", 0 - 1)
         \/ \E name \in GroupNames \cup {GroupName(2)} :
              \E r \in {del_assembly(Heap, self, 0 - 1, name)} :
                 Called(r, "del_assembly", self, 0 - 1, name, 0 - 1)

NewConnection ==
    /\ nops < MaxOps
    /\ \E c \in MutConns, pre \in MutObjs, post \in MutObjs :
         /\ pre_assembly[c] = 0 - 1
         /\ \A b \in MutConns : b < c => pre_assembly[b] /= 0 - 1
         /\ Called(Ok(new_connection(Heap, c, pre, post)),
                   "Connection", c, pre, post, c)

AddConnection ==
    /\ nops < MaxOps
    /\ \E self \in MutObjs, name \in ConnNames, c \in MutConns :
         /\ pre_assembly[c] /= 0 - 1
         /\ \E r \in {add_connection(Heap, self, name, c)} :
               Called(r, "add_connection", self, name, c, 0 - 1)

DelConnection ==
    /\ nops < MaxOps
    /\ \E self \in MutObjs :
         \/ \E c \in MutConns :
              /\ pre_assembly[c] /= 0 - 1
              /\ \E r \in {del_connection(Heap, self, c, "")} :
                    Called(r, "del_connection", self, c, "", 0 - 1)
         \/ \E name \in ConnNames :
              \E r \in {del_connection(Heap, self, 0 - 1, name)} :
                 Called(r, "del_connection", self, 0 - 1, name, 0 - 1)

ReplaceAssembly ==
    /\ nops < MaxOps
    /\ \E self \in MutObjs, old \in MutObjs, new \in MutObjs :
         \E r \in {replace_assembly(Heap, self, old, new)} :
            Called(r, "replace_assembly", self, old, new, 0 - 1)

MergeAssembly ==
    /\ nops < MaxOps
    /\ \E self \in MutObjs, assembly \in MutObjs :
         \E r \in {merge_assembly(Heap, self, assembly)} :
            Called(r, "merge_assembly", self, assembly, 0 - 1, 0 - 1)

\* What a call of select_assembly may list: names and member objects.
SelectItems ==
    {<<"name", n>> : n \in GroupNames \cup {GroupName(2)}}
        \cup {<<"obj", o>> : o \in 1..MutNodes}

SelectAssembly ==
    /\ nops < MaxOps
    /\ cls[NewObj] = "None"
    /\ \E assemblies \in UNION {[1..k -> SelectItems] : k \in 0..2},
          with_connection \in BOOLEAN :
         \E r \in {select_assembly(Heap, T, assemblies, NewObj,
                                   with_connection)} :
            Called(r, "select_assembly", T, assemblies, with_connection,
                   NewObj)

\* The object a call of copy_assembly makes: the first one not yet made.
CopyObjs == (MutNodes + 2)..MaxObj
FreshCopy ==
    CHOOSE o \in CopyObjs :
        cls[o] = "None" /\ \A x \in CopyObjs : x < o => cls[x] /= "None"

\* copy_assembly of an assembly without members and connections.
CopyAssembly ==
    /\ nops < MaxOps
    /\ \E o \in CopyObjs : cls[o] = "None"
    /\ \E self \in MutObjs, name \in GroupNames, assembly \in MutObjs :
         /\ groups[assembly] = <<>>
         /\ connections[assembly] = <<>>
         /\ ~has_backend[assembly]
         /\ \E r \in {copy_assembly(Heap, self, name, assembly, FreshCopy)} :
               Called(r, "copy_assembly", self, name, assembly, 0 - 1)

\* assembly.structure_copy(name) of an assembly without members and
\* connections; name = None is "".
StructureCopy ==
    /\ nops < MaxOps
    /\ \E o \in CopyObjs : cls[o] = "None"
    /\ \E self \in MutObjs, name \in {"", "a"} :
         /\ groups[self] = <<>>
         /\ connections[self] = <<>>
         /\ ~has_backend[self]
         /\ \E r \in {Ok(structure_copy(Heap, self, name, FreshCopy))} :
               Called(r, "structure_copy", self, name, 0 - 1, FreshCopy)

\* self.get_super_assemblies(assembly): the heap stays, the record of the
\* call holds the list it returned.
GetSuperAssemblies ==
    /\ nops < MaxOps
    /\ \E self \in MutObjs, assembly \in MutObjs :
         \E r \in {get_super_assemblies(Heap, self, assembly, {})} :
            Called([h |-> Heap,
                    exc |-> IF r.err THEN "RecursionError" ELSE ""],
                   "get_super_assemblies", self, assembly, 0 - 1, r.list)

NextMut ==
    \/ GetSuperAssemblies
    \/ StructureCopy
    \/ AddAssembly
    \/ DelAssembly
    \/ NewConnection
    \/ AddConnection
    \/ DelConnection
    \/ ReplaceAssembly
    \/ MergeAssembly
    \/ SelectAssembly
    \/ CopyAssembly

SpecMut == InitMut /\ [][NextMut]_vars

\* ------------------------------------------- graphs with pending levels
\* A Network of one Encoder and NeuronGroups, with distinct connections none
\* of which enters the Encoder.
LevelPairs == (1..LevelNodes) \X (2..LevelNodes)
LevelEdgeSeqs ==
    UNION {{es \in [1..k -> LevelPairs] :
               \A i, j \in 1..k : es[i] = es[j] => i = j} :
           k \in 0..LevelEdges}

InitLevels ==
    /\ \E es \in LevelEdgeSeqs :
         \E h \in {Construct("Network", LevelNodes,
                             [i \in 1..LevelNodes |->
                                 IF i = 1 THEN "Encoder" ELSE "NeuronGroup"],
                             [i \in 1..LevelNodes |-> 0], es)} : HeapIs(h)
    /\ calls = <<>>
    /\ prev_calls = <<>>
    /\ warns = <<>>
    /\ phase_ends = <<>>
    /\ phase_forced = <<>>
    /\ status = "idle"
    /\ runs = 0
    /\ last = NoCall
    /\ nops = 0

NextLevels == Build

SpecLevels == InitLevels /\ [][NextLevels]_vars

\* ----------------------------------------- mutations of a built container
StaleNodes == 2     \* direct members of the built container
StaleEdges == 1     \* connections of the built container
StaleRuns  == 1     \* builds of the container
StaleOps   == 1     \* calls of the mutation API on the built graph

InitStale ==
    /\ \E top \in ContainerClasses, n \in 0..StaleNodes :
         \E kinds \in [1..n -> MemberClasses], inner \in [1..n -> 0..MaxInner],
            es \in UNION {[1..k -> (1..n) \X (1..n)] : k \in 0..StaleEdges} :
              /\ \A i \in 1..n : kinds[i] /= "Assembly" => inner[i] = 0
              /\ \E h \in {Construct(top, n, kinds, inner, es)} : HeapIs(h)
    /\ calls = <<>>
    /\ prev_calls = <<>>
    /\ warns = <<>>
    /\ phase_ends = <<>>
    /\ phase_forced = <<>>
    /\ status = "idle"
    /\ runs = 0
    /\ last = NoCall
    /\ nops = 0

\* The build of the top-level target on its backend: top.build(backend), and
\* the backend is compiled (builded) when the build returns.
TargetBuild ==
    /\ runs < StaleRuns
    /\ \E r \in {build(T, NewRun)} :
         /\ calls' = r.calls
         /\ warns' = r.warns
         /\ phase_ends' = r.ends
         /\ phase_forced' = r.forced
         /\ status' = IF r.err THEN "RecursionError" ELSE "ok"
         /\ has_backend' = [o \in Objs |-> has_backend[o] \/ o \in r.backend]
         /\ builded' = IF r.err THEN builded ELSE TRUE
    /\ prev_calls' = calls
    /\ runs' = runs + 1
    /\ UNCHANGED <<cls, names, id, groups, connections, attrs, supers,
                   input_connections, output_connections, num, pre_assembly,
                   post_assembly, con_supers, last, nops>>

\* The objects of the graph, and its containers.
Made == {o \in Objs : cls[o] /= "None"}
Containers == {o \in Made : ~IsLeafClass(cls[o])}

StaleAddAssembly ==
    /\ nops < StaleOps
    /\ \E self \in Containers, name \in GroupNames, assembly \in Made :
         \E r \in {add_assembly(Heap, self, name, assembly)} :
            Called(r, "add_assembly", self, name, assembly, 0 - 1)

StaleDelAssembly ==
    /\ nops < StaleOps
    /\ \E self \in Containers :
         \/ \E assembly \in Made :
              \E r \in {del_assembly(Heap, self, assembly, "")} :
                 Called(r, "del_assembly", self, assembly, "", 0 - 1)
         \/ \E name \in GroupNames :
              \E r \in {del_assembly(Heap, self, 0 - 1, name)} :
                 Called(r, "del_assembly", self, 0 - 1, name, 0 - 1)

StaleReplaceAssembly ==
    /\ nops < StaleOps
    /\ \E self \in Containers, old \in Made, new \in Made :
         \E r \in {replace_assembly(Heap, self, old, new)} :
            Called(r, "replace_assembly", self, old, new, 0 - 1)

StaleMergeAssembly ==
    /\ nops < StaleOps
    /\ \E self \in Containers, assembly \in Made :
         \E r \in {merge_assembly(Heap, self, assembly)} :
            Called(r, "merge_assembly", self, assembly, 0 - 1, 0 - 1)

NextStale ==
    \/ TargetBuild
    \/ StaleAddAssembly
    \/ StaleDelAssembly
    \/ StaleReplaceAssembly
    \/ StaleMergeAssembly

SpecStale == InitStale /\ [][NextStale]_vars

\* ------------------------------------------------ ids under re-registration
IdOps == 3          \* calls of set_id and of the mutation API

InitId ==
    /\ \E ms \in MemberSeqs, nested \in BOOLEAN :
         LET h0 == EmptyHeap([o \in Objs |-> MutClass(o)])
             h1 == [h0 EXCEPT !.num = [o \in Objs |->
                                 IF IsLeafClass(MutClass(o)) THEN 1 ELSE 0]]
             h2 == IF nested /\ MutNodes >= 2
                   THEN add_assembly(h1, 1, GroupName(2), 2).h ELSE h1
         IN  \E h \in {add_listed(h2, ms, 1)} : HeapIs(h)
    /\ calls = <<>>
    /\ prev_calls = <<>>
    /\ warns = <<>>
    /\ phase_ends = <<>>
    /\ phase_forced = <<>>
    /\ status = "idle"
    /\ runs = 0
    /\ last = NoCall
    /\ nops = 0

\* self.set_id(); the record of the call holds the id it returned.
SetId ==
    /\ nops < IdOps
    /\ \E self \in MutObjs :
         \E r \in {set_id(Heap, self, {})} :
            Called(r, "set_id", self, 0 - 1, 0 - 1, r.ret)

IdAddAssembly ==
    /\ nops < IdOps
    /\ \E self \in MutObjs, name \in GroupNames, assembly \in MutObjs :
         \E r \in {add_assembly(Heap, self, name, assembly)} :
            Called(r, "add_assembly", self, name, assembly, 0 - 1)

IdDelAssembly ==
    /\ nops < IdOps
    /\ \E self \in MutObjs, name \in GroupNames \cup {GroupName(2)} :
         \E r \in {del_assembly(Heap, self, 0 - 1, name)} :
            Called(r, "del_assembly", self, 0 - 1, name, 0 - 1)

IdReplaceAssembly ==
    /\ nops < IdOps
    /\ \E self \in MutObjs, old \in MutObjs, new \in MutObjs :
         \E r \in {replace_assembly(Heap, self, old, new)} :
            Called(r, "replace_assembly", self, old, new, 0 - 1)

NextId ==
    \/ SetId
    \/ IdAddAssembly
    \/ IdDelAssembly
    \/ IdReplaceAssembly

SpecId == InitId /\ [][NextId]_vars

\* ------------------------------------------------ claims on the scheduler
\* The direct members and the edges of the scheduled container.
Members == {OdValues(groups[T])[i] : i \in DOMAIN groups[T]}
Edges == {OdValues(connections[T])[i] : i \in DOMAIN connections[T]}

\* How many build calls x received in the latest run, and where.
CallsOf(x) == {i \in DOMAIN calls : calls[i] = x}
Count(x) == Cardinality(CallsOf(x))

IsSink(m) == cls[m] = "Decoder"
IsolatedMember(m) ==
    input_connections[m] = <<>> /\ output_connections[m] = <<>>

\* The edge graph of the container has no directed cycle.
Succ(n) == {post_assembly[c] : c \in {e \in Edges : pre_assembly[e] = n}}
RECURSIVE ReachFrom(_, _)
ReachFrom(S, k) ==
    IF k = 0 THEN S ELSE ReachFrom(S \cup UNION {Succ(n) : n \in S}, k - 1)
Acyclic == \A n \in Members : n \notin ReachFrom(Succ(n), Cardinality(Members))

\* C1: when a scheduler run completes, every direct member and every edge of
\* the container has received at least one build call.
C1_EveryMemberAndEdgeBuilt ==
    status = "ok" =>
        /\ \A m \in Members : Count(G(m)) >= 1
        /\ \A c \in Edges : Count(C(c)) >= 1

\* Every direct member is a plain node (no composite among them), no edge
\* enters a source and no edge leaves a sink.
PlainMembers ==
    \A m \in Members :
        /\ IsLeafClass(cls[m])
        /\ cls[m] \in {"Encoder", "Generator"} => input_connections[m] = <<>>
        /\ cls[m] = "Decoder" => output_connections[m] = <<>>

\* C2: in one scheduler run no node and no edge receives more than one build
\* call (direct members, sinks reached through an edge, descendants); stated
\* here for a Network of plain nodes with no edge into a source or out of a
\* sink.
C2_NoDoubleBuild ==
    (status = "ok" /\ cls[T] = "Network" /\ PlainMembers) =>
        \A i, j \in DOMAIN calls : calls[i] = calls[j] => i = j

\* C3: every build call of a sink member comes after every build call of the
\* non-sink members and of the edges of the container; stated here for a
\* Network of plain nodes with no edge into a source or out of a sink.
C3_SinksLast ==
    (status = "ok" /\ cls[T] = "Network" /\ PlainMembers) =>
        \A d \in Members : IsSink(d) =>
            \A i \in CallsOf(G(d)) :
                /\ \A m \in Members : ~IsSink(m) =>
                       \A j \in CallsOf(G(m)) : j < i
                /\ \A c \in Edges : \A j \in CallsOf(C(c)) : j < i

\* C4: in a container whose edge graph has no directed cycle, a node is built
\* only after all its registered inbound edges, and an edge only after its
\* pre-node; stated here for a Network of plain nodes with no edge into a
\* source or out of a sink.
C4_DependencyOrder ==
    (status = "ok" /\ Acyclic /\ cls[T] = "Network" /\ PlainMembers) =>
        /\ \A m \in Members : \A i \in CallsOf(G(m)) :
               \A c \in DOMAIN input_connections[m] :
                   \E j \in CallsOf(C(input_connections[m][c])) : j < i
        /\ \A c \in Edges : \A i \in CallsOf(C(c)) :
               \E j \in CallsOf(G(pre_assembly[c])) : j < i

\* The container of C5: exactly two (plain) nodes, the edges A->B and B->A,
\* nothing else.
TwoCycle ==
    /\ PlainMembers
    /\ Len(groups[T]) = 2
    /\ Len(connections[T]) = 2
    /\ \E a, b \in Members :
         /\ a /= b
         /\ \E c, d \in Edges :
              /\ pre_assembly[c] = a /\ post_assembly[c] = b
              /\ pre_assembly[d] = b /\ post_assembly[d] = a

\* C5: on the two-node cycle one scheduler run emits the cycle warning and
\* builds both nodes and both edges exactly once.
C5_TwoCycleBuiltOnce ==
    (TwoCycle /\ runs >= 1) =>
        /\ status = "ok"
        /\ In("Loop", warns)
        /\ \A m \in Members : Count(G(m)) = 1
        /\ \A c \in Edges : Count(C(c)) = 1

\* No assembly of the graph is without members.
NoEmptyAssembly ==
    \A o \in Objs : InheritsBuild(cls[o]) => groups[o] /= <<>>

\* C6: the scheduler terminates on every finite container graph (cycles and
\* self-loops included); stated here for the graphs without an empty assembly.
C6_Terminates == NoEmptyAssembly => status /= "RecursionError"

C8_IsolatedWarnedAndBuiltOnce ==
    (runs >= 1 /\ PlainMembers) =>
        \A m \in Members : IsolatedMember(m) =>
            /\ status = "ok"
            /\ In("Isolated", warns)
            /\ Count(G(m)) = 1

\* ---------------------------------------------- claims on the mutation API
\* A connection of the call `last'` whose end is no member of the container
\* the call is made on, judged in the state before the call.
DanglingCall ==
    LET self == last'.self
        c == last'.a2
    IN  \/ ~In(pre_assembly[c], OdValues(groups[self]))
        \/ ~In(post_assembly[c], OdValues(groups[self]))

\* C9: add_connection fails whenever the connection's pre-assembly or
\* post-assembly is not a current member of the container, and that failure
\* leaves the container's member mapping, its connection mapping, the
\* aggregate num and every assembly's list of parents as they were before
\* the call.
C9_DanglingAddConnectionFails ==
    [][(nops' = nops + 1 /\ last'.op = "add_connection" /\ DanglingCall)
          => /\ last'.exc = "AssertionError"
             /\ groups' = groups
             /\ connections' = connections
             /\ num' = num
             /\ supers' = supers]_vars

\* An add_connection has just failed on a container that has members: the
\* pre-assembly is one of them and the post-assembly is not.
C9_Witness ==
    /\ last.op = "add_connection"
    /\ last.exc = "AssertionError"
    /\ groups[last.self] /= <<>>
    /\ In(pre_assembly[last.a2], OdValues(groups[last.self]))
    /\ ~In(post_assembly[last.a2], OdValues(groups[last.self]))

\* C10: after any sequence of add_assembly, del_assembly, add_connection,
\* del_connection, replace_assembly, merge_assembly and select_assembly,
\* every connection in a container's connection mapping (the container
\* select_assembly returns included) has its pre-assembly and its
\* post-assembly among the container's current members.
C10_NoDanglingConnection ==
    \A o \in Objs : \A i \in DOMAIN connections[o] :
        /\ In(pre_assembly[connections[o][i][2]], OdValues(groups[o]))
        /\ In(post_assembly[connections[o][i][2]], OdValues(groups[o]))

\* The values of an OrderedDict, as a set.
ValueSet(d) == {d[i][2] : i \in DOMAIN d}

\* A step that is a call of the method op.
IsCall(op) == nops' = nops + 1 /\ last'.op = op

\* C11: add_assembly fails when the name is already a key of the container's
\* member mapping or when the assembly is already a direct member, and the
\* failure leaves the member mapping, the aggregate num and the parent lists
\* as they were before the call.
C11_DuplicateAddAssemblyFails ==
    [][(/\ IsCall("add_assembly")
        /\ \/ OdHas(groups[last'.self], last'.a1)
           \/ last'.a2 \in ValueSet(groups[last'.self]))
          => /\ last'.exc = "AssertionError"
             /\ groups' = groups
             /\ num' = num
             /\ supers' = supers]_vars

\* An add_assembly has just failed because its name is the key of another
\* member of the container.
C11_Witness ==
    /\ last.op = "add_assembly"
    /\ last.exc = "AssertionError"
    /\ OdHas(groups[last.self], last.a1)
    /\ last.a2 \notin ValueSet(groups[last.self])

\* The assemblies r owns in the heap h, directly or through its members:
\* k rounds of following the member mappings from the set S.
RECURSIVE OwnedFrom(_, _, _)
OwnedFrom(h, S, k) ==
    IF k = 0 THEN S
    ELSE OwnedFrom(h, S \cup UNION {ValueSet(h.groups[o]) : o \in S}, k - 1)
Owns(h, r, c) == c \in OwnedFrom(h, {r}, Cardinality(Objs))

\* C12: after a successful add_assembly(name, N) on a container C, N is a
\* direct member of C under that name, C's num has grown by N's num, C has
\* been appended to N's parent list, and get_super_assemblies(N), called on
\* any container that owns N through C, returns a list that contains C.
C12_AddAssemblyRegisters ==
    [][(/\ IsCall("add_assembly")
        /\ last'.exc = ""
        /\ ~IsLeafClass(cls[last'.self])
        /\ last'.a2 /= last'.self)
          => LET c == last'.self
                 n == last'.a2
             IN  /\ \E i \in DOMAIN groups'[c] :
                        groups'[c][i] = <<last'.a1, n>>
                 /\ num'[c] = num[c] + num[n]
                 /\ supers'[n] = Append(supers[n], c)
                 /\ \A r \in Objs :
                        Owns(Heap', r, c)
                           => LET chain == get_super_assemblies(Heap', r, n, {})
                              IN  ~chain.err /\ In(c, chain.list)]_vars

\* The member a call of del_assembly names, by object or by name (0 - 1 when
\* the container has no such member).
DelTarget ==
    LET d == groups[last'.self] IN
    IF last'.a1 /= 0 - 1
    THEN IF last'.a1 \in ValueSet(d) THEN last'.a1 ELSE 0 - 1
    ELSE IF OdHas(d, last'.a2) THEN OdGet(d, last'.a2) ELSE 0 - 1

\* C13: a successful del_assembly, by object or by name, removes the
\* assembly from the container's member mapping, removes the container from
\* the assembly's parent list and removes from the container every
\* connection that has the assembly as pre- or post-assembly; when neither
\* the name nor the object is found the call fails and changes nothing.
C13_DelAssemblyDetaches ==
    [][IsCall("del_assembly")
          => LET self == last'.self IN
             /\ (DelTarget /= 0 - 1 /\ last'.exc = "")
                   => /\ DelTarget \notin ValueSet(groups'[self])
                      /\ ~In(self, supers'[DelTarget])
                      /\ \A i \in DOMAIN connections'[self] :
                            ~assembly_linked(Heap', connections'[self][i][2],
                                             DelTarget)
             /\ DelTarget = 0 - 1
                   => /\ last'.exc /= ""
                      /\ groups' = groups
                      /\ connections' = connections
                      /\ supers' = supers
                      /\ num' = num]_vars

\* The sum of the members' num over the first k entries of a member mapping.
RECURSIVE SumNum(_, _)
SumNum(d, k) == IF k = 0 THEN 0 ELSE SumNum(d, k - 1) + num[d[k][2]]

\* C14: after any sequence of add_assembly, del_assembly, replace_assembly,
\* copy_assembly and merge_assembly, the num of every container equals the
\* sum of the num of its current direct members, also when a member's own
\* num changed after it was added.
C14_NumIsSumOfMembers ==
    \A o \in Objs :
        (cls[o] /= "None" /\ ~IsLeafClass(cls[o]))
            => num[o] = SumNum(groups[o], Len(groups[o]))

\* C15: after any sequence of add_assembly, replace_assembly, copy_assembly
\* and merge_assembly, no assembly is held under two different names in the
\* member mapping of one container.
C15_NoMemberUnderTwoNames ==
    \A o \in Objs : \A i, j \in DOMAIN groups[o] :
        groups[o][i][2] = groups[o][j][2] => i = j

\* What replace_assembly(old, new) is to leave behind on success: new under
\* old's name at old's place, every other member as it was, the connection
\* mapping as it was, and in every connection the container holds each end
\* that was old now new, each other end (and every other connection) as it
\* was.
Replaced ==
    LET self == last'.self
        old == last'.a1
        new == last'.a2
        d == groups[self]
    IN  /\ groups'[self] =
               [i \in DOMAIN d |->
                  IF d[i][2] = old THEN <<d[i][1], new>> ELSE d[i]]
        /\ \A o \in Objs \ {self} : groups'[o] = groups[o]
        /\ connections' = connections
        /\ \A c \in Conns :
              IF c \in ValueSet(connections[self])
              THEN /\ pre_assembly'[c] =
                         IF pre_assembly[c] = old THEN new
                         ELSE pre_assembly[c]
                   /\ post_assembly'[c] =
                         IF post_assembly[c] = old THEN new
                         ELSE post_assembly[c]
              ELSE /\ pre_assembly'[c] = pre_assembly[c]
                   /\ post_assembly'[c] = post_assembly[c]

\* C16 as stated: replace_assembly(old, new) fails when old is not a current
\* member; on success new has old's name and position in the member
\* mapping, old is no longer a member, and every connection of the
\* container that had old as pre- or post-assembly has new there, all other
\* connections and members unchanged.
C16_ReplaceAssemblyAsStated ==
    [][IsCall("replace_assembly")
          => /\ last'.a1 \notin ValueSet(groups[last'.self])
                   => last'.exc /= ""
             /\ last'.exc = ""
                   => /\ Replaced
                      /\ last'.a1 \notin ValueSet(groups'[last'.self])]_vars

\* C16 amended: as stated, with "old is no longer a member" only when new
\* is another object than old.
C16_ReplaceAssembly ==
    [][IsCall("replace_assembly")
          => /\ last'.a1 \notin ValueSet(groups[last'.self])
                   => last'.exc /= ""
             /\ last'.exc = ""
                   => /\ Replaced
                      /\ last'.a1 /= last'.a2
                            => last'.a1 \notin
                                  ValueSet(groups'[last'.self])]_vars

\* A replace_assembly by another object has just succeeded on a container
\* that holds a connection whose end was rewired to the new assembly.
C16_Witness ==
    /\ last.op = "replace_assembly"
    /\ last.exc = ""
    /\ last.a1 /= last.a2
    /\ last.a2 \in ValueSet(groups[last.self])
    /\ last.a1 \notin ValueSet(groups[last.self])
    /\ \E c \in ValueSet(connections[last.self]) :
          pre_assembly[c] = last.a2 \/ post_assembly[c] = last.a2

\* C17: after self.merge_assembly(other) every member and every connection
\* of other is in self exactly once: an object self holds already is not
\* added again, an absent one is added under its own name when the name is
\* free, and under name(1) when the name is held by another object and
\* name(1) is free.
C17_MergeAddsEachOnce ==
    [][IsCall("merge_assembly")
          => LET self == last'.self
                 other == last'.a1
                 suffixed(key) == key \o "(1)"
                 merged(from, to, to2) ==
                    \A i \in DOMAIN from :
                        LET key == from[i][1]
                            value == from[i][2]
                        IN  /\ Cardinality({j \in DOMAIN to2 :
                                               to2[j][2] = value}) = 1
                            /\ (value \notin ValueSet(to) /\ ~OdHas(to, key))
                                  => In(<<key, value>>, to2)
                            /\ (/\ value \notin ValueSet(to)
                                /\ OdHas(to, key)
                                /\ ~OdHas(to, suffixed(key)))
                                  => In(<<suffixed(key), value>>, to2)
             IN  /\ merged(groups[other], groups[self], groups'[self])
                 /\ merged(connections[other], connections[self],
                           connections'[self])]_vars

\* An item of a call of select_assembly names a member of the container:
\* a key of the member mapping, or an assembly the mapping holds.
ItemFound(self, asb) ==
    IF asb[1] = "name" THEN OdHas(groups[self], asb[2])
    ELSE asb[2] \in ValueSet(groups[self])

\* The member an item names.
ItemMember(self, asb) ==
    IF asb[1] = "name" THEN OdGet(groups[self], asb[2]) ELSE asb[2]

\* C19: select_assembly with with_connection = True, given a list that
\* names each member of a subset of the container's members once, returns a
\* new container whose members are exactly those assemblies (the objects
\* themselves) and whose connections are every connection of the source
\* container that has a selected member as pre- or post-assembly.
C19_SelectWithConnections ==
    [][(/\ IsCall("select_assembly")
        /\ last'.a2 = TRUE
        /\ \A i \in DOMAIN last'.a1 : ItemFound(last'.self, last'.a1[i])
        /\ \A i, j \in DOMAIN last'.a1 :
              ItemMember(last'.self, last'.a1[i])
                  = ItemMember(last'.self, last'.a1[j]) => i = j)
          => LET self == last'.self
                 selected == {ItemMember(self, last'.a1[i]) :
                                 i \in DOMAIN last'.a1}
             IN  /\ last'.exc = ""
                 /\ last'.ret /= 0 - 1
                 /\ ValueSet(groups'[last'.ret]) = selected
                 /\ ValueSet(connections'[last'.ret]) =
                       {c \in ValueSet(connections[self]) :
                           \/ pre_assembly[c] \in selected
                           \/ post_assembly[c] \in selected}]_vars

\* C20: select_assembly fails with an error when a requested item is a
\* name that is no key of the member mapping or an assembly that is no
\* member of the container.
C20_SelectUnknownFails ==
    [][(/\ IsCall("select_assembly")
        /\ \E i \in DOMAIN last'.a1 : ~ItemFound(last'.self, last'.a1[i]))
          => last'.exc /= ""]_vars

\* ------------------------------------- claims on the staleness of a build
\* A call of add/remove/replace/merge that returned.
SuccessfulMutation ==
    /\ nops' = nops + 1
    /\ last'.exc = ""
    /\ last'.op \in {"add_assembly", "del_assembly", "replace_assembly",
                     "merge_assembly"}

\* C21: after a successful add, remove, replace or merge on a container
\* anywhere under a top-level target that was built before, the target's
\* backend is no longer compiled (builded is false), whether or not the
\* container the call was made on has itself been through a build.
C21_MutationUnderTargetMarksStale ==
    [][(/\ SuccessfulMutation
        /\ status = "ok"
        /\ last'.self = T \/ Owns(Heap, T, last'.self))
       => ~builded']_vars

\* -------------------------------------------------------- claims on the ids
\* C22: once set_id has returned an id for a node, every later set_id on
\* that node returns the same id, also after the node was added to further
\* parents, removed from a parent, or registered again under another name:
\* an id that is set never changes, and set_id returns the id that is set.
C22_IdStable ==
    [][/\ \A o \in Objs : id[o] /= "" => id'[o] = id[o]
       /\ IsCall("set_id") /\ last'.exc = "" =>
              last'.ret = id'[last'.self]]_vars

\* A set_id that returned the id computed when the node was n2 in T alone,
\* on a node that by now has a second parent and the name "a".
C22_Witness ==
    /\ last.op = "set_id"
    /\ last.exc = ""
    /\ Len(supers[last.self]) = 2
    /\ names[last.self] = "a"
    /\ id[T] /= ""
    /\ last.ret = id[T] \o "_" \o GroupName(2) \o ClassLabel(cls[last.self])

\* ------------------------------------------------- claims on structure_copy
\* C23: structure_copy returns a new node whose parent list, inbound-edge
\* list and outbound-edge list are empty, so that it shares no parent and no
\* edge back-reference with the source (no container holds it, no connection
\* refers to it), and it leaves the source's members, edges, parent list and
\* back-reference lists as they were.
C23_StructureCopyDetached ==
    [][IsCall("structure_copy") /\ last'.exc = "" =>
         LET rv == last'.ret
             source == last'.self
         IN  /\ rv /= source
             /\ supers'[rv] = <<>>
             /\ input_connections'[rv] = <<>>
             /\ output_connections'[rv] = <<>>
             /\ \A o \in Objs : ~In(rv, OdValues(groups'[o]))
             /\ \A c \in Conns : pre_assembly'[c] /= rv /\ post_assembly'[c] /= rv
             /\ groups'[source] = groups[source]
             /\ connections'[source] = connections[source]
             /\ supers'[source] = supers[source]
             /\ input_connections'[source] = input_connections[source]
             /\ output_connections'[source] = output_connections[source]]_vars

\* A copy of a source that has a parent, an inbound and an outbound edge.
C23_Witness ==
    /\ last.op = "structure_copy"
    /\ last.exc = ""
    /\ cls[last.ret] = cls[last.self]
    /\ supers[last.self] /= <<>>
    /\ input_connections[last.self] /= <<>>
    /\ output_connections[last.self] /= <<>>

\* ------------------------------------------------ claims on the parent list
\* How often x occurs in the list s.
Occurrences(x, s) == Cardinality({i \in DOMAIN s : s[i] = x})

\* C24: after any sequence of add, remove, replace, merge, copy and select,
\* a container is in the parent list (_supers) of a node exactly when the
\* node is at present a direct member of the container, and at most once.
C24_SupersAreTheParents ==
    \A node \in Objs, container \in Objs :
        /\ Occurrences(container, supers[node]) <= 1
        /\ In(container, supers[node]) <=> In(node, OdValues(groups[container]))

\* -------------------------------------------- claims on get_super_assemblies
\* The assembly r owns c as a member, or as a member of a member, ...
OwnsMember(h, r, c) ==
    c \in OwnedFrom(h, ValueSet(h.groups[r]), Cardinality(Objs))

\* C25: get_super_assemblies(target) returns the containers that own the
\* target, ordered from the target's direct parent first up to the outermost
\* container (the one it was called on) last, and returns the empty list
\* when the target is not owned.
C25_SupersFromParentOutwards ==
    [][IsCall("get_super_assemblies") =>
         LET self == last'.self
             target == last'.a1
             list == last'.ret
         IN  /\ last'.exc = ""
             /\ IF ~OwnsMember(Heap, self, target) THEN list = <<>>
                ELSE /\ list /= <<>>
                     /\ In(target, OdValues(groups[list[1]]))
                     /\ \A i \in 1..(Len(list) - 1) :
                           In(list[i], OdValues(groups[list[i + 1]]))
                     /\ list[Len(list)] = self]_vars

\* ------------------------------------------------ claims on the containment
\* C27: through any sequence of add, replace, copy and merge the containment
\* relation stays acyclic (no assembly owns itself as a member, a member of a
\* member, ...), so that the recursion of set_id over the parent lists
\* terminates.
C27_ContainmentAcyclic ==
    \A o \in Objs :
        /\ ~OwnsMember(Heap, o, o)
        /\ set_id(Heap, o, {}).exc /= "RecursionError"

\* --------------------------------------------- claims on the pending groups
\* The pending groups of a strategy_build that were still not built when its
\* first loop ended; e is an entry of phase_ends.
StillUnbuilt(e) ==
    {n \in {Flatten(e.unbuild)[k] : k \in DOMAIN Flatten(e.unbuild)} :
        ~In(G(n), e.builded)}

\* C28: the warning 'Loop occurs' is emitted only when at least one group
\* recorded as pending is still unbuilt at the end of the first loop, and a
\* container whose edge graph has no directed cycle (a diamond, two sources
\* into one group) never produces it.
C28_LoopWarningOnlyWhenPending ==
    status = "ok" =>
        /\ In("Loop", warns) =>
               \E i \in DOMAIN phase_ends : StillUnbuilt(phase_ends[i]) /= {}
        /\ Acyclic /\ PlainMembers => ~In("Loop", warns)

\* unbuild_groups as the list of its entries <<level, group>>, key by key in
\* the order the keys were inserted.
RECURSIVE LevelEntries(_)
LevelEntries(d) ==
    IF d = <<>> THEN <<>>
    ELSE [i \in DOMAIN d[1][2] |-> <<d[1][1], d[1][2][i]>>]
             \o LevelEntries(Tail(d))

\* C26: the second loop resolves the pending groups by force in ascending
\* order of the traversal level they were recorded at (lowest level first,
\* insertion order within a level), whatever order the levels were first
\* recorded in: when it resolves a pending group, every other group recorded
\* at a lower level, or earlier at the same level, is built already.
C26_PendingResolvedByLevel ==
    status = "ok" =>
        \A f \in DOMAIN phase_forced :
            phase_forced[f].self = T =>
                LET e == phase_ends[CHOOSE i \in DOMAIN phase_ends :
                                        phase_ends[i].self = T]
                    es == LevelEntries(e.unbuild)
                    k == phase_forced[f].entry
                IN  \A j \in DOMAIN es :
                        (/\ es[j][2] /= es[k][2]
                         /\ \/ es[j][1] < es[k][1]
                            \/ es[j][1] = es[k][1] /\ j < k)
                            => In(G(es[j][2]), phase_forced[f].builded)

====
